---- MODULE Spec2Model ----
(***************************************************************************)
(* Model of src/bitcoin_scraper.py: the locator fallback resolver          *)
(* (safe_get_text, try_multiple), the extraction of one record             *)
(* (scrape_bitcoin_data, with its community-sentiment block), the CSV      *)
(* store (save_to_csv), the retry supervisor (run_once) and the entry      *)
(* point; and of the entry point of src/optimized_bitcoin_scraper.py.      *)
(*                                                                         *)
(* Texts are sequences of one-character strings, so that str.strip() is    *)
(* computed and not assumed.  The specifications share the definitions:    *)
(*   Spec          run_once, one call, step by step                        *)
(*   SpecResolve   try_multiple and `try_multiple(...) or "N/A"` applied   *)
(*                 to every bounded list of strategy outcomes              *)
(*   SpecSentiment the sentiment block applied to every bounded page       *)
(*   SpecLive      Spec, with every step of the call eventually taken       *)
(*   SpecStore     save_to_csv applied again and again to an absent file   *)
(*   SpecOptimized the entry point of src/optimized_bitcoin_scraper.py      *)
(***************************************************************************)
EXTENDS Integers, Sequences, FiniteSets, TLC

VARIABLES
    \* ---- run_once (Spec) ----
    pc,          \* position in run_once / scrape_bitcoin_data
    attempts,    \* the `attempts` argument of run_once
    attempt,     \* the loop variable of run_once (0 before the first attempt)
    driver,      \* local `driver`: 0 is None, n > 0 the Session created in attempt n
    loc,         \* locals of scrape_bitcoin_data (field values found so far)
    data,        \* local `data` of run_once: <<>> before it is bound, <<record>> after
    ret,         \* TRUE while `return True` is pending in the finally block
    last_exc,    \* local `last_exc`
    result,      \* what run_once returned: "none" (still running), "true", "false"
    table,       \* the CSV file: [exists, rows]
    clock,       \* wall clock, in ticks
    url,         \* the `url` argument of run_once
    in_main,     \* the call was made by the `__main__` block
    exit_status, \* <<>> while the process runs, <<n>> once it ended with status n
    \* ---- history of the call (observers, never read by the program) ----
    table0,      \* the CSV file when run_once was called
    live,        \* Sessions created and not yet handed to driver.quit()
    released,    \* number of driver.quit() calls
    quit_raised, \* some driver.quit() raised
    outcomes,    \* per finished try block: how it ended
    resolvable,  \* plain fields for which the loaded page has an element with a text
    visited,     \* the addresses handed to driver.get, in call order
    steps,       \* the calls of the current attempt so far, each with the clock
                 \* after it; "now" is datetime.now()
    \* ---- try_multiple (SpecResolve) ----
    locators,    \* the outcomes the page gives to each strategy, in list order
    resolved,    \* try_multiple's result
    field,       \* `try_multiple(...) or "N/A"`
    \* ---- sentiment block (SpecSentiment) ----
    sent_in,     \* what the page answers to the block's queries
    sent_out,    \* the block's result
    \* ---- save_to_csv (SpecStore) ----
    appended,    \* the records handed to save_to_csv so far, in call order
    \* ---- optimized_bitcoin_scraper.py (SpecOptimized) ----
    opc,         \* position in its `__main__` block
    olive,       \* its browser session exists and driver.quit() was not called
    odata        \* its `scraped_data`: <<>> before it is bound, <<record>> after

vars == <<pc, attempts, attempt, driver, loc, data, ret, last_exc, result, table,
          clock, url, in_main, exit_status, table0, live, released, quit_raised,
          outcomes, resolvable, visited, steps,
          locators, resolved, field, sent_in, sent_out, appended, opc, olive, odata>>

mainVars == <<url, in_main, exit_status>>
callVars == <<pc, attempts, attempt, driver, loc, data, ret, last_exc, result,
              clock, mainVars, table0, live, released, quit_raised, outcomes,
              resolvable, visited, steps>>
runVars == <<callVars, table>>
resolveVars == <<locators, resolved, field>>
sentVars == <<sent_in, sent_out>>
storeVars == <<appended>>
optVars == <<opc, olive, odata>>
otherVars == <<storeVars, optVars>>

----------------------------------------------------------------------------
(* Bounds *)

MaxLen == 2          \* longest element text in SpecResolve
MaxStrategies == 3   \* longest strategy list in SpecResolve
MaxCandidates == 3   \* longest candidate list of the first sentiment query
MaxFallback == 2     \* longest candidate list of the fallback sentiment query
MaxAttempts == 3     \* largest `attempts` argument
MaxAppends == 3      \* most save_to_csv calls in SpecStore

----------------------------------------------------------------------------
(* Texts *)

Chars == {" ", "x"}

RECURSIVE TextsOfLen(_)
TextsOfLen(n) ==
    IF n = 0 THEN {<<>>}
    ELSE {<<c>> \o t : c \in Chars, t \in TextsOfLen(n - 1)}

Texts == UNION {TextsOfLen(n) : n \in 0..MaxLen}

\* Python's None for an Optional[str], and the sentinel "N/A"
None == <<"None">>
NA == <<"N", "/", "A">>

IsSpace(c) == c = " "

RECURSIVE LStrip(_)
LStrip(s) == IF s # <<>> /\ IsSpace(Head(s)) THEN LStrip(Tail(s)) ELSE s

RECURSIVE RStrip(_)
RStrip(s) ==
    IF s # <<>> /\ IsSpace(s[Len(s)]) THEN RStrip(SubSeq(s, 1, Len(s) - 1)) ELSE s

\* str.strip()
Strip(s) == RStrip(LStrip(s))

\* truth value of an Optional[str]: None and "" are false
Truthy(t) == t # None /\ t # <<>>

\* Python's `a or b`
Or(a, b) == IF Truthy(a) THEN a ELSE b

----------------------------------------------------------------------------
(* safe_get_text / try_multiple *)

\* What the page does with one strategy: the wait times out, the element is
\* found but reading its text raises, or the element is found with a text.
Timeout == [kind |-> "timeout", text |-> <<>>]
Stale == [kind |-> "stale", text |-> <<>>]
Found(t) == [kind |-> "found", text |-> t]

StrategyOutcomes == {Timeout, Stale} \cup {Found(t) : t \in Texts}

RECURSIVE SeqsOfLen(_, _)
SeqsOfLen(S, n) ==
    IF n = 0 THEN {<<>>}
    ELSE {<<x>> \o s : x \in S, s \in SeqsOfLen(S, n - 1)}

SeqsUpTo(S, n) == UNION {SeqsOfLen(S, k) : k \in 0..n}

\* mutant: no except clause, the locator's exception escapes
SafeGetText_noexcept(o) ==
    IF o.kind = "found"
    THEN [value |-> Strip(o.text), raised |-> FALSE]
    ELSE [value |-> None, raised |-> TRUE]

\* safe_get_text: the stripped text, or None when anything raised
SafeGetText(o) ==
    IF o.kind = "found"
    THEN [value |-> Strip(o.text), raised |-> FALSE]
    ELSE [value |-> None, raised |-> FALSE]

\* The loop of try_multiple from strategy i on; `ev` lists the strategies
\* evaluated so far.
RECURSIVE TryMultipleFrom(_, _, _)
TryMultipleFrom(locs, i, ev) ==
    IF i > Len(locs)
    THEN [value |-> None, evaluated |-> ev, raised |-> FALSE]
    ELSE LET r == SafeGetText(locs[i])
             ev2 == Append(ev, i)
         IN  IF r.raised
             THEN [value |-> None, evaluated |-> ev2, raised |-> TRUE]
             ELSE IF Truthy(r.value)
                  THEN [value |-> r.value, evaluated |-> ev2, raised |-> FALSE]
                  ELSE TryMultipleFrom(locs, i + 1, ev2)

\* mutant: the loop does not stop at the first text, the last text wins
RECURSIVE TryMultiple_last(_)
TryMultiple_last(locs) ==
    IF locs = <<>>
    THEN [value |-> None, evaluated |-> <<>>, raised |-> FALSE]
    ELSE LET n == Len(locs)
             before == TryMultiple_last(SubSeq(locs, 1, n - 1))
             r == SafeGetText(locs[n])
         IN  [value |-> IF Truthy(r.value) THEN r.value ELSE before.value,
              evaluated |-> Append(before.evaluated, n),
              raised |-> FALSE]

\* try_multiple
TryMultiple(locs) == TryMultipleFrom(locs, 1, <<>>)

\* `try_multiple(driver, wait, [...]) or "N/A"`
ResolveField(locs) ==
    LET r == TryMultiple(locs)
    IN  [value |-> IF r.raised THEN None ELSE Or(r.value, NA), raised |-> r.raised]

----------------------------------------------------------------------------
(* The community-sentiment block of scrape_bitcoin_data *)

\* A candidate element of find_elements: reading its text raises (the element
\* went stale) or gives a text.
StaleEl == [stale |-> TRUE, text |-> <<>>]
El(t) == [stale |-> FALSE, text |-> t]

\* What find_elements does: it raises, or returns a list of elements.
QueryRaises == [raised |-> TRUE, elems |-> <<>>]
QueryReturns(es) == [raised |-> FALSE, elems |-> es]

PageOutcomes == {Timeout, Found(<<" ">>), Found(<<"x", " ">>)}
CandidateOutcomes == {StaleEl, El(<<" ">>), El(<<"x">>), El(<<" ", "y">>)}

QueryResults(n) ==
    {QueryRaises} \cup {QueryReturns(es) : es \in SeqsUpTo(CandidateOutcomes, n)}

\* the three container strategies of lines 135-139
NumContainerStrategies == 3

\* sentiment_parent = try_multiple(...): the container's text, or None
SentimentParent(containerOuts) == TryMultiple(containerOuts).value

SentimentResult(bullish, bearish, exc) ==
    [bullish |-> bullish, bearish |-> bearish, exc |-> exc]

\* mutant: the candidate queries are made whether or not a container was found
SentimentRatios_noGate(parent, q1, q2) ==
    LET fallback == q1.elems = <<>>
        elems == IF fallback THEN q2.elems ELSE q1.elems
    IN  IF q1.raised \/ (fallback /\ q2.raised) THEN SentimentResult(NA, NA, "query")
        ELSE IF elems = <<>> THEN SentimentResult(NA, NA, "none")
        ELSE IF elems[1].stale THEN SentimentResult(NA, NA, "first")
        ELSE IF Len(elems) >= 2 /\ elems[2].stale
             THEN SentimentResult(Or(Strip(elems[1].text), NA), NA, "second")
        ELSE SentimentResult(Or(Strip(elems[1].text), NA),
                             IF Len(elems) >= 2 THEN Or(Strip(elems[2].text), NA) ELSE NA,
                             "none")

\* mutant: the except clause resets both values
SentimentRatios_reset(parent, q1, q2) ==
    LET fallback == q1.elems = <<>>
        elems == IF fallback THEN q2.elems ELSE q1.elems
    IN  IF ~Truthy(parent) THEN SentimentResult(NA, NA, "none")
        ELSE IF q1.raised \/ (fallback /\ q2.raised) THEN SentimentResult(NA, NA, "query")
        ELSE IF elems = <<>> THEN SentimentResult(NA, NA, "none")
        ELSE IF elems[1].stale THEN SentimentResult(NA, NA, "first")
        ELSE IF Len(elems) >= 2 /\ elems[2].stale THEN SentimentResult(NA, NA, "second")
        ELSE SentimentResult(Or(Strip(elems[1].text), NA),
                             IF Len(elems) >= 2 THEN Or(Strip(elems[2].text), NA) ELSE NA,
                             "none")

\* mutant: the second value is read from the end of the list
SentimentRatios_lastElem(parent, q1, q2) ==
    LET fallback == q1.elems = <<>>
        elems == IF fallback THEN q2.elems ELSE q1.elems
        n == Len(elems)
    IN  IF ~Truthy(parent) THEN SentimentResult(NA, NA, "none")
        ELSE IF q1.raised \/ (fallback /\ q2.raised) THEN SentimentResult(NA, NA, "query")
        ELSE IF elems = <<>> THEN SentimentResult(NA, NA, "none")
        ELSE IF elems[1].stale THEN SentimentResult(NA, NA, "first")
        ELSE IF n >= 2 /\ elems[n].stale
             THEN SentimentResult(Or(Strip(elems[1].text), NA), NA, "second")
        ELSE SentimentResult(Or(Strip(elems[1].text), NA),
                             IF n >= 2 THEN Or(Strip(elems[n].text), NA) ELSE NA,
                             "none")

\* Lines 132-156 after the container lookup.  bullish = bearish = "N/A"; then,
\* inside try/except Exception: if the container text is truthy, the first
\* find_elements, the fallback find_elements when that returns nothing, and
\* the reads of elems[0].text and elems[1].text.  An exception leaves bullish
\* and bearish as they are when it is raised.  `exc` tells where the except
\* clause was entered from: "none", "query", "first" or "second".
SentimentRatios(parent, q1, q2) ==
    LET fallback == q1.elems = <<>>
        elems == IF fallback THEN q2.elems ELSE q1.elems
    IN  IF ~Truthy(parent) THEN SentimentResult(NA, NA, "none")
        ELSE IF q1.raised \/ (fallback /\ q2.raised) THEN SentimentResult(NA, NA, "query")
        ELSE IF elems = <<>> THEN SentimentResult(NA, NA, "none")
        ELSE IF elems[1].stale THEN SentimentResult(NA, NA, "first")
        ELSE IF Len(elems) >= 2 /\ elems[2].stale
             THEN SentimentResult(Or(Strip(elems[1].text), NA), NA, "second")
        ELSE SentimentResult(Or(Strip(elems[1].text), NA),
                             IF Len(elems) >= 2 THEN Or(Strip(elems[2].text), NA) ELSE NA,
                             "none")

\* the whole block
SentimentBlock(containerOuts, q1, q2) ==
    SentimentRatios(SentimentParent(containerOuts), q1, q2)

----------------------------------------------------------------------------
(* save_to_csv *)

Cols == <<"timestamp", "price", "market_cap", "volume_24h",
          "circulating_supply", "price_change_24h", "bullish_sentiment",
          "bearish_sentiment">>
ColSet == {Cols[i] : i \in 1..Len(Cols)}

\* a missing value of a DataFrame
NaN == <<"NaN">>

\* pd.read_csv turns an empty cell and the cell N/A (one of its default
\* na_values) into NaN; other texts of the model are kept as strings
ReadCsvCell(c) == IF c = <<>> \/ c = NA THEN NaN ELSE c

\* DataFrame.to_csv writes NaN as the empty cell (na_rep = "")
ToCsvCell(v) == IF v = NaN THEN <<>> ELSE v

\* pd.read_csv(file_name), with the FileNotFoundError branch: no rows
ReadCsv(t) ==
    IF t.exists
    THEN [i \in 1..Len(t.rows) |-> [c \in ColSet |-> ReadCsvCell(t.rows[i][c])]]
    ELSE <<>>

\* df.to_csv(file_name, index=False)
ToCsv(df) ==
    [exists |-> TRUE,
     rows |-> [i \in 1..Len(df) |-> [c \in ColSet |-> ToCsvCell(df[i][c])]]]

\* pd.DataFrame([data], columns=cols)
NewRow(d) == [c \in ColSet |-> d[c]]

\* save_to_csv when nothing raises: read, concat, write
SaveToCsv(d, t) == ToCsv(Append(ReadCsv(t), NewRow(d)))

\* save_to_csv of optimized_bitcoin_scraper.py when nothing raises:
\* pd.DataFrame([data]) takes its columns from the dict's keys, and concat
\* aligns them with the file's by name
OptSaveToCsv(d, t) == ToCsv(Append(ReadCsv(t), d))

----------------------------------------------------------------------------
(* scrape_bitcoin_data, step by step *)

PlainFields == <<"price", "market_cap", "volume_24h", "circulating_supply",
                 "price_change_24h">>
PlainSet == {PlainFields[i] : i \in 1..Len(PlainFields)}

\* the number of strategies each field is given (lines 99-129)
NumStrategies ==
    [price |-> 3, market_cap |-> 3, volume_24h |-> 3, circulating_supply |-> 2,
     price_change_24h |-> 2]

LocalNames == PlainSet \cup {"sentiment_parent", "bullish", "bearish"}
NoLocals == [n \in LocalNames |-> None]

\* where control goes after the statement that assigns field f
AfterField(f) ==
    LET i == CHOOSE j \in 1..Len(PlainFields) : PlainFields[j] = f
    IN  IF i < Len(PlainFields) THEN PlainFields[i + 1] ELSE "sentiment"

\* datetime.now().strftime("%Y-%m-%d %H:%M:%S"), on the model's clock
Strftime(t) == <<"T", ToString(t)>>

\* an entry of `steps`
Step(name, t) == [step |-> name, t |-> t]

\* line 23: the address of the page
URL == "https://coinmarketcap.com/currencies/bitcoin/"

\* some strategy of the list finds an element whose stripped text is not empty
Resolvable(outs) ==
    \E i \in 1..Len(outs) : outs[i].kind = "found" /\ Strip(outs[i].text) # <<>>

\* what the loaded page answers to the strategies of field f, given the set
\* of fields it has a text for
PageAnswers(f, has) ==
    {outs \in SeqsOfLen(PageOutcomes, NumStrategies[f]) : Resolvable(outs) <=> f \in has}

\* an exception escapes the try block of run_once: the except clause
\* (lines 206-208) binds last_exc, then the finally block runs.  A `data`
\* bound by this attempt is dead from here on (line 199 rebinds it before
\* line 200 reads it again), so it is dropped.
Except(kind) ==
    /\ last_exc' = kind
    /\ outcomes' = Append(outcomes, kind)
    /\ data' = <<>>
    /\ pc' = "finally"

\* lines 94-95: the wait object and driver.get(URL), which loads a page or
\* raises
Navigate ==
    /\ pc = "navigate"
    /\ clock' = clock + 1
    /\ visited' = Append(visited, URL)
    /\ steps' = Append(steps, Step("navigate", clock'))
    /\ \/ /\ pc' = "price"
          /\ loc' = NoLocals
          /\ resolvable' \in SUBSET PlainSet
          /\ UNCHANGED <<last_exc, outcomes, data>>
       \/ /\ Except("nav_failed")
          /\ UNCHANGED <<loc, resolvable>>
    /\ UNCHANGED <<attempts, attempt, driver, ret, result, table, table0, live,
                   released, quit_raised, resolveVars, sentVars,
                   mainVars, otherVars>>

\* mutant: the first field that is not resolved ends the extraction, the
\* fields after it are left at the sentinel
ResolvePlainField_abort ==
    /\ pc \in PlainSet
    /\ steps' = Append(steps, Step(pc, clock))
    /\ \E outs \in PageAnswers(pc, resolvable) :
         LET r == ResolveField(outs)
         IN  /\ loc' = IF r.value = NA
                       THEN [n \in LocalNames |->
                               IF loc[n] = None /\ n \in PlainSet THEN NA ELSE loc[n]]
                       ELSE [loc EXCEPT ![pc] = r.value]
             /\ pc' = IF r.value = NA THEN "sentiment" ELSE AfterField(pc)
    /\ UNCHANGED <<attempts, attempt, driver, data, ret, last_exc, result, table, clock,
                   table0, live, released, quit_raised, outcomes, resolvable, resolveVars, sentVars,
                   mainVars, visited, otherVars>>

\* lines 99-129: one `f = try_multiple(driver, wait, [...]) or "N/A"`
ResolvePlainField ==
    /\ pc \in PlainSet
    /\ steps' = Append(steps, Step(pc, clock))
    /\ \E outs \in PageAnswers(pc, resolvable) :
         LET r == ResolveField(outs)
         IN  IF r.raised
             THEN /\ Except("extract_failed")
                  /\ UNCHANGED loc
             ELSE /\ loc' = [loc EXCEPT ![pc] = r.value]
                  /\ pc' = AfterField(pc)
                  /\ UNCHANGED <<last_exc, outcomes, data>>
    /\ UNCHANGED <<attempts, attempt, driver, ret, result, table, clock,
                   table0, live, released, quit_raised, resolvable, resolveVars, sentVars,
                   mainVars, visited, otherVars>>

\* lines 132-139: bullish = bearish = "N/A", then the container lookup
SentimentContainer ==
    /\ pc = "sentiment"
    /\ steps' = Append(steps, Step("sentiment", clock))
    /\ \E outs \in SeqsOfLen(PageOutcomes, NumContainerStrategies) :
         loc' = [loc EXCEPT !.bullish = NA, !.bearish = NA,
                            !.sentiment_parent = SentimentParent(outs)]
    /\ pc' = "ratios"
    /\ UNCHANGED <<attempts, attempt, driver, data, ret, last_exc, result, table, clock,
                   table0, live, released, quit_raised, outcomes, resolvable,
                   resolveVars, sentVars,
                   mainVars, visited, otherVars>>

\* lines 142-156: the candidate queries and the two reads; the fallback
\* query is only made when the first one returns no element
SentimentCandidates ==
    /\ pc = "ratios"
    /\ steps' = Append(steps, Step("ratios", clock))
    /\ \E q1 \in QueryResults(MaxCandidates) :
         \E q2 \in IF q1 = QueryReturns(<<>>)
                   THEN QueryResults(MaxFallback) ELSE {QueryRaises} :
           LET r == SentimentRatios(loc.sentiment_parent, q1, q2)
           IN  loc' = [loc EXCEPT !.bullish = r.bullish, !.bearish = r.bearish]
    /\ pc' = "assemble"
    /\ UNCHANGED <<attempts, attempt, driver, data, ret, last_exc, result, table, clock,
                   table0, live, released, quit_raised, outcomes, resolvable,
                   resolveVars, sentVars,
                   mainVars, visited, otherVars>>

\* lines 160-169: the dict that is returned
BitcoinData(l, timestamp) ==
    [timestamp |-> timestamp,
     price |-> l.price,
     market_cap |-> l.market_cap,
     volume_24h |-> l.volume_24h,
     circulating_supply |-> l.circulating_supply,
     price_change_24h |-> l.price_change_24h,
     bullish_sentiment |-> l.bullish,
     bearish_sentiment |-> l.bearish]

\* mutant: a dict whose data fields are all "N/A" counts as no data
DictTruthy_someValue(d) == \E k \in DOMAIN d \ {"timestamp"} : d[k] # NA

\* truth value of a dict: it has a key
DictTruthy(d) == DOMAIN d # {}

\* the clock after driver.get returned in the current attempt
NavigatedAt ==
    LET i == CHOOSE j \in DOMAIN steps : steps[j].step = "navigate" IN steps[i].t

\* mutant: the timestamp is the time the page was loaded, not the time the
\* extraction ended
Assemble_stampAtStart ==
    /\ pc = "assemble"
    /\ clock' = clock + 1
    /\ steps' = Append(steps, Step("now", NavigatedAt))
    /\ data' = <<BitcoinData(loc, Strftime(NavigatedAt))>>
    /\ loc' = NoLocals
    /\ pc' = IF DictTruthy(data'[1]) THEN "save" ELSE "finally"
    /\ UNCHANGED <<attempts, attempt, driver, ret, last_exc, result, table,
                   table0, live, released, quit_raised, outcomes, resolvable,
                   resolveVars, sentVars,
                   mainVars, visited, otherVars>>

\* lines 158-171 and 199-205: the timestamp, the dict, the return to
\* run_once (the locals of scrape_bitcoin_data are gone) and its `if data:`
Assemble ==
    /\ pc = "assemble"
    /\ clock' = clock + 1
    /\ steps' = Append(steps, Step("now", clock'))
    /\ data' = <<BitcoinData(loc, Strftime(clock'))>>
    /\ loc' = NoLocals
    /\ pc' = IF DictTruthy(data'[1]) THEN "save" ELSE "finally"
    /\ UNCHANGED <<attempts, attempt, driver, ret, last_exc, result, table,
                   table0, live, released, quit_raised, outcomes, resolvable,
                   resolveVars, sentVars,
                   mainVars, visited, otherVars>>

----------------------------------------------------------------------------
(* The variables before anything has run *)

\* `url` before run_once is called
NoUrl == ""

\* the variables of run_once before any call
RunIdle ==
    /\ pc = "idle"
    /\ attempts = 0
    /\ attempt = 0
    /\ driver = 0
    /\ loc = NoLocals
    /\ data = <<>>
    /\ ret = FALSE
    /\ last_exc = "None"
    /\ result = "none"
    /\ clock = 0
    /\ live = {}
    /\ released = 0
    /\ quit_raised = FALSE
    /\ outcomes = <<>>
    /\ resolvable = {}
    /\ url = NoUrl
    /\ in_main = FALSE
    /\ exit_status = <<>>
    /\ visited = <<>>
    /\ steps = <<>>

NoTable == [exists |-> FALSE, rows |-> <<>>]

ResolveIdle == locators = <<>> /\ resolved = <<>> /\ field = <<>>
SentimentIdle == sent_in = <<>> /\ sent_out = <<>>
StoreIdle == appended = <<>>
OptIdle == opc = "idle" /\ olive = FALSE /\ odata = <<>>
OtherIdle == StoreIdle /\ OptIdle

----------------------------------------------------------------------------
(* run_once *)

\* a row an earlier run left in the file
PriorRow ==
    [c \in ColSet |->
        IF c = "timestamp" THEN Strftime(0) ELSE IF c = "price" THEN <<"x">> ELSE NA]

\* the file before the call: absent, or written by one earlier run
InitialTables == {NoTable, [exists |-> TRUE, rows |-> <<PriorRow>>]}

\* mutant: range(1, attempts + 2) instead of range(1, attempts + 1)
RangeHasNext_long(i, n) == i <= n

\* mutant: range(1, attempts) instead of range(1, attempts + 1)
RangeHasNext_short(i, n) == i + 1 < n

\* `for attempt in range(1, attempts + 1)` has a value after i
RangeHasNext(i, n) == i < n

\* line 26: the default of `attempts`
RETRY_ATTEMPTS == 2

\* the values of the `url` argument: the default and another address
OtherUrl == "https://example.org/"
Urls == {URL, OtherUrl}

\* run_once(url = u, attempts = n) is called by an importer of the module
\* (lines 191-193)
Call ==
    /\ pc = "idle"
    /\ \E n \in 0..MaxAttempts : attempts' = n
    /\ \E u \in Urls : url' = u
    /\ in_main' = FALSE
    /\ last_exc' = "None"
    /\ pc' = "loop"
    /\ UNCHANGED <<attempt, driver, loc, data, ret, result, table, clock, table0,
                   live, released, quit_raised, outcomes, resolvable,
                   resolveVars, sentVars,
                   exit_status, visited, steps, otherVars>>

\* lines 220-222: the script is run, `success = run_once()` with the defaults
Main ==
    /\ pc = "idle"
    /\ attempts' = RETRY_ATTEMPTS
    /\ url' = URL
    /\ in_main' = TRUE
    /\ last_exc' = "None"
    /\ pc' = "loop"
    /\ UNCHANGED <<attempt, driver, loc, data, ret, result, table, clock, table0,
                   live, released, quit_raised, outcomes, resolvable,
                   resolveVars, sentVars,
                   exit_status, visited, steps, otherVars>>

\* lines 223-226: `success` is logged and the script ends.  Nothing calls
\* sys.exit or raises, so the interpreter ends with status 0 in both branches.
MainExit ==
    /\ pc = "returned"
    /\ in_main
    /\ exit_status' = <<0>>
    /\ pc' = "exited"
    /\ UNCHANGED <<attempts, attempt, driver, loc, data, ret, last_exc, result,
                   table, clock, url, in_main, table0, live, released, quit_raised,
                   outcomes, resolvable, visited, steps,
                   resolveVars, sentVars, otherVars>>

\* mutant: driver = None is set once before the loop, not in each iteration
LoopNext_keepDriver ==
    /\ pc = "loop"
    /\ RangeHasNext(attempt, attempts)
    /\ attempt' = attempt + 1
    /\ resolvable' = {}
    /\ steps' = <<>>
    /\ pc' = "create"
    /\ UNCHANGED <<attempts, driver, loc, data, ret, last_exc, result, table, clock,
                   table0, live, released, quit_raised, outcomes,
                   resolveVars, sentVars,
                   mainVars, visited, otherVars>>

\* lines 194-196: the next attempt starts, driver = None
LoopNext ==
    /\ pc = "loop"
    /\ RangeHasNext(attempt, attempts)
    /\ attempt' = attempt + 1
    /\ driver' = 0
    /\ resolvable' = {}
    /\ steps' = <<>>
    /\ pc' = "create"
    /\ UNCHANGED <<attempts, loc, data, ret, last_exc, result, table, clock, table0,
                   live, released, quit_raised, outcomes,
                   resolveVars, sentVars,
                   mainVars, visited, otherVars>>

\* lines 215-217: the loop is over, return False
ReturnFalse ==
    /\ pc = "loop"
    /\ ~RangeHasNext(attempt, attempts)
    /\ result' = "false"
    /\ pc' = "returned"
    /\ UNCHANGED <<attempts, attempt, driver, loc, data, ret, last_exc, table, clock,
                   table0, live, released, quit_raised, outcomes, resolvable,
                   resolveVars, sentVars,
                   mainVars, visited, steps, otherVars>>

\* line 198: driver = create_driver(), which returns a new Session or raises
CreateDriver ==
    /\ pc = "create"
    /\ \/ /\ driver' = attempt
          /\ live' = live \cup {attempt}
          /\ clock' = clock + 1
          /\ steps' = Append(steps, Step("create", clock'))
          /\ pc' = "navigate"
          /\ UNCHANGED <<last_exc, outcomes, data>>
       \/ /\ Except("create_failed")
          /\ UNCHANGED <<driver, live, clock, steps>>
    /\ UNCHANGED <<attempts, attempt, loc, ret, result, table, table0,
                   released, quit_raised, resolvable, resolveVars, sentVars,
                   mainVars, visited, otherVars>>

\* mutant: the except clause does not cover the store, its error leaves
\* run_once through the finally block
SaveRaises_propagate ==
    /\ pc = "save"
    /\ last_exc' = "persist_failed"
    /\ outcomes' = Append(outcomes, "persist_failed")
    /\ live' = live \ {driver}
    /\ released' = released + 1
    /\ result' = "raised"
    /\ pc' = "returned"
    /\ UNCHANGED <<attempts, attempt, driver, loc, data, ret, table, clock, table0,
                   quit_raised, resolvable, resolveVars, sentVars,
                   mainVars, visited, steps, otherVars>>

\* line 201: save_to_csv raises (pd.read_csv on anything but a missing file,
\* or to_csv); the file is left as it was and the except clause takes over
SaveRaises ==
    /\ pc = "save"
    /\ Except("persist_failed")
    /\ UNCHANGED <<attempts, attempt, driver, loc, ret, result, table, clock,
                   table0, live, released, quit_raised, resolvable,
                   resolveVars, sentVars,
                   mainVars, visited, steps, otherVars>>

\* lines 201-203: save_to_csv appends the row, `return True` is pending
SaveOk ==
    /\ pc = "save"
    /\ table' = SaveToCsv(data[1], table)
    /\ ret' = TRUE
    /\ outcomes' = Append(outcomes, "success")
    /\ pc' = "finally"
    /\ UNCHANGED <<attempts, attempt, driver, loc, data, last_exc, result, clock,
                   table0, live, released, quit_raised, resolvable,
                   resolveVars, sentVars,
                   mainVars, visited, steps, otherVars>>

\* mutant: what driver.quit() raises is not caught, it leaves run_once
Finally_quitPropagates ==
    /\ pc = "finally"
    /\ \/ /\ driver # 0
          /\ live' = live \ {driver}
          /\ released' = released + 1
          /\ quit_raised' = TRUE
          /\ result' = "raised"
          /\ pc' = "returned"
       \/ /\ IF driver # 0
             THEN /\ live' = live \ {driver}
                  /\ released' = released + 1
             ELSE UNCHANGED <<live, released>>
          /\ UNCHANGED quit_raised
          /\ IF ret
             THEN result' = "true" /\ pc' = "returned"
             ELSE result' = result /\ pc' = "loop"
    /\ UNCHANGED <<attempts, attempt, driver, loc, data, ret, last_exc, table, clock,
                   table0, outcomes, resolvable, resolveVars, sentVars,
                   mainVars, visited, steps, otherVars>>

\* mutant: the Session is only released when the attempt succeeded
Finally_quitOnSuccess ==
    /\ pc = "finally"
    /\ IF driver # 0 /\ ret
       THEN /\ live' = live \ {driver}
            /\ released' = released + 1
       ELSE UNCHANGED <<live, released>>
    /\ IF ret
       THEN result' = "true" /\ pc' = "returned"
       ELSE result' = result /\ pc' = "loop"
    /\ UNCHANGED <<attempts, attempt, driver, loc, data, ret, last_exc, table, clock,
                   table0, quit_raised, outcomes, resolvable, resolveVars, sentVars,
                   mainVars, visited, steps, otherVars>>

\* mutant: the loop goes on after a success
Finally_noReturn ==
    /\ pc = "finally"
    /\ IF driver # 0
       THEN /\ live' = live \ {driver}
            /\ released' = released + 1
       ELSE UNCHANGED <<live, released>>
    /\ pc' = "loop"
    /\ IF ret /\ ~RangeHasNext(attempt, attempts)
       THEN result' = "true" ELSE result' = result
    /\ UNCHANGED <<attempts, attempt, driver, loc, data, ret, last_exc, table, clock,
                   table0, quit_raised, outcomes, resolvable, resolveVars, sentVars,
                   mainVars, visited, steps, otherVars>>

\* lines 209-214, then the pending `return True` or the next iteration:
\* driver.quit() is called when a Session was created, and what it raises
\* is swallowed
Finally ==
    /\ pc = "finally"
    /\ IF driver # 0
       THEN /\ live' = live \ {driver}
            /\ released' = released + 1
            /\ \E raises \in BOOLEAN : quit_raised' = (quit_raised \/ raises)
       ELSE UNCHANGED <<live, released, quit_raised>>
    /\ IF ret
       THEN result' = "true" /\ pc' = "returned"
       ELSE result' = result /\ pc' = "loop"
    /\ UNCHANGED <<attempts, attempt, driver, loc, data, ret, last_exc, table, clock,
                   table0, outcomes, resolvable, resolveVars, sentVars,
                   mainVars, visited, steps, otherVars>>

Init ==
    /\ RunIdle
    /\ table \in InitialTables
    /\ table0 = table
    /\ ResolveIdle
    /\ SentimentIdle
    /\ OtherIdle

Next ==
    \/ Call
    \/ Main
    \/ LoopNext
    \/ ReturnFalse
    \/ CreateDriver
    \/ Navigate
    \/ ResolvePlainField
    \/ SentimentContainer
    \/ SentimentCandidates
    \/ Assemble
    \/ SaveOk
    \/ SaveRaises
    \/ Finally
    \/ MainExit

Spec == Init /\ [][Next]_vars

\* Every call of run_once's body returns or raises (pure Python statements,
\* and the collaborators are assumed to), so a step that can be taken is
\* taken.
SpecLive == Spec /\ WF_vars(Next)

----------------------------------------------------------------------------
(* save_to_csv, called again and again (SpecStore) *)

\* the records handed to the store at clock t: each of three fields was
\* found on the page or is the sentinel
StoreRecords(t) ==
    {[c \in ColSet |->
        IF c = "timestamp" THEN Strftime(t) ELSE IF c \in miss THEN NA ELSE <<"x">>] :
     miss \in SUBSET {"price", "market_cap", "bullish_sentiment"}}

InitStore ==
    /\ RunIdle /\ table = NoTable /\ table0 = NoTable
    /\ ResolveIdle
    /\ SentimentIdle
    /\ OtherIdle

\* save_to_csv(d) of bitcoin_scraper.py returns
StoreAppend ==
    /\ Len(appended) < MaxAppends
    /\ \E d \in StoreRecords(Len(appended) + 1) :
         /\ table' = SaveToCsv(d, table)
         /\ appended' = Append(appended, d)
    /\ UNCHANGED <<callVars, resolveVars, sentVars, optVars>>

\* save_to_csv(d) of optimized_bitcoin_scraper.py returns
OptStoreAppend ==
    /\ Len(appended) < MaxAppends
    /\ \E d \in StoreRecords(Len(appended) + 1) :
         /\ table' = OptSaveToCsv(d, table)
         /\ appended' = Append(appended, d)
    /\ UNCHANGED <<callVars, resolveVars, sentVars, optVars>>

NextStore == StoreAppend \/ OptStoreAppend

SpecStore == InitStore /\ [][NextStore]_vars

----------------------------------------------------------------------------
(* optimized_bitcoin_scraper.py: its `__main__` block (SpecOptimized) *)

\* safe_find_text: the stripped text of the element, "N/A" when
\* find_element or the read of the text raises
SafeFindText(o) == IF o.kind = "found" THEN Strip(o.text) ELSE NA

\* reading the text of the first element of a query result raises
FirstReadFails(q) == q.elems # <<>> /\ q.elems[1].stale

\* the text of the first element of a query result, "N/A" when it has none
FirstTextOr(q) == IF q.elems # <<>> THEN q.elems[1].text ELSE NA

\* lines 79-99: the two class queries and the unstripped text of the first
\* element of each; when any of that raises, both values are reset and the
\* heading query gives them positionally, stripped, as far as it gets
OptSentiment(bq, rq, fq) ==
    IF ~(bq.raised \/ rq.raised \/ FirstReadFails(bq) \/ FirstReadFails(rq))
    THEN [bullish |-> FirstTextOr(bq), bearish |-> FirstTextOr(rq)]
    ELSE IF fq.raised \/ fq.elems = <<>> \/ fq.elems[1].stale
         THEN [bullish |-> NA, bearish |-> NA]
    ELSE IF Len(fq.elems) >= 2 /\ ~fq.elems[2].stale
         THEN [bullish |-> Strip(fq.elems[1].text), bearish |-> Strip(fq.elems[2].text)]
    ELSE [bullish |-> Strip(fq.elems[1].text), bearish |-> NA]

\* lines 102-115: the timestamp and the dict that is returned
OptBitcoinData(plain, sentiment, timestamp) ==
    [c \in ColSet |->
        IF c = "timestamp" THEN timestamp
        ELSE IF c = "bullish_sentiment" THEN sentiment.bullish
        ELSE IF c = "bearish_sentiment" THEN sentiment.bearish
        ELSE SafeFindText(plain[c])]

InitOptimized ==
    /\ RunIdle
    /\ table \in InitialTables
    /\ table0 = table
    /\ ResolveIdle
    /\ SentimentIdle
    /\ OtherIdle

\* an exception leaves the script: the interpreter prints it and ends,
\* nothing after the raising statement runs
OptCrash == opc' = "crashed"

\* line 138: driver = create_driver(headless=True), which returns a new
\* session or raises
OptCreateDriver ==
    /\ opc = "idle"
    /\ \/ olive' = TRUE /\ opc' = "navigate"
       \/ OptCrash /\ UNCHANGED olive
    /\ UNCHANGED <<odata, runVars, resolveVars, sentVars, storeVars>>

\* lines 140, 54-57: scrape_bitcoin_data is entered, driver.get(URL) and the
\* sleep, both before its try block
OptNavigate ==
    /\ opc = "navigate"
    /\ \/ opc' = "extract"
       \/ OptCrash
    /\ UNCHANGED <<olive, odata, runVars, resolveVars, sentVars, storeVars>>

\* lines 59-115 and 142: the try block of scrape_bitcoin_data and the
\* `if scraped_data:` of the script.  Every call of the block that can
\* raise is inside safe_find_text or inside the sentiment handlers, so the
\* block ends with the dict.
OptExtract ==
    /\ opc = "extract"
    /\ \E plain \in [PlainSet -> PageOutcomes],
          bq \in QueryResults(1), rq \in QueryResults(1),
          fq \in QueryResults(MaxFallback) :
         odata' = <<OptBitcoinData(plain, OptSentiment(bq, rq, fq), Strftime(clock))>>
    /\ opc' = IF DictTruthy(odata'[1]) THEN "save" ELSE "quit"
    /\ UNCHANGED <<olive, runVars, resolveVars, sentVars, storeVars>>

\* line 143: save_to_csv appends the row
OptSaveOk ==
    /\ opc = "save"
    /\ table' = OptSaveToCsv(odata[1], table)
    /\ opc' = "quit"
    /\ UNCHANGED <<olive, odata, callVars, resolveVars, sentVars, storeVars>>

\* line 143: save_to_csv raises, the file is left as it was
OptSaveRaises ==
    /\ opc = "save"
    /\ OptCrash
    /\ UNCHANGED <<olive, odata, runVars, resolveVars, sentVars, storeVars>>

\* line 148: driver.quit(), the last statement of the script
OptQuit ==
    /\ opc = "quit"
    /\ olive' = FALSE
    /\ \/ opc' = "done"
       \/ OptCrash
    /\ UNCHANGED <<odata, runVars, resolveVars, sentVars, storeVars>>

NextOptimized ==
    \/ OptCreateDriver
    \/ OptNavigate
    \/ OptExtract
    \/ OptSaveOk
    \/ OptSaveRaises
    \/ OptQuit

SpecOptimized == InitOptimized /\ [][NextOptimized]_vars

----------------------------------------------------------------------------
(* Properties of run_once (Spec) *)

\* run_once has returned
Returned == pc \in {"returned", "exited"}

\* how a try block can end with an AttemptFailure: create_driver raised,
\* driver.get raised, or an exception escaped the extraction
AttemptFailures == {"create_failed", "nav_failed", "extract_failed"}

Last(sq) == sq[Len(sq)]
CountOf(kind) == Cardinality({i \in DOMAIN outcomes : outcomes[i] = kind})

C2_AllFailReturnsFalse ==
    (Returned /\ \A i \in DOMAIN outcomes : outcomes[i] \in AttemptFailures) =>
        /\ result = "false"
        /\ attempt = attempts
        /\ Len(outcomes) = attempts
        /\ table = table0

C2_Witness ==
    /\ Returned /\ result = "false"
    /\ attempts = 3
    /\ outcomes = <<"create_failed", "nav_failed", "nav_failed">>
    /\ table = table0

\* C3 as stated: when attempts 1..k-1 end in an AttemptFailure and attempt k
\* succeeds, run_once returns true after k attempts and driver.quit() has
\* been called k times.
C3_ReleasedOncePerAttempt ==
    (/\ Returned /\ result = "true"
     /\ \A i \in 1..(Len(outcomes) - 1) : outcomes[i] \in AttemptFailures) =>
        /\ attempt = Len(outcomes)
        /\ released = attempt

\* C3 amended: ... run_once returns true after k attempts and driver.quit()
\* has been called once for each attempt that created a Session, that is k
\* minus the number of attempts in which create_driver raised.
C3_ReleasedOncePerSession ==
    (/\ Returned /\ result = "true"
     /\ \A i \in 1..(Len(outcomes) - 1) : outcomes[i] \in AttemptFailures) =>
        /\ attempt = Len(outcomes)
        /\ released = attempt - CountOf("create_failed")
        /\ live = {}

C3_Witness ==
    /\ Returned /\ result = "true"
    /\ attempts = 3
    /\ outcomes = <<"create_failed", "nav_failed", "success">>
    /\ released = 2

\* C4: at most one Session is live; a live Session is the one of the attempt
\* in flight; none is live between attempts (when the next attempt is about
\* to create one) nor when run_once has returned.
C4_OneSessionReleased ==
    /\ Cardinality(live) <= 1
    /\ live # {} => live = {driver} /\ driver = attempt
    /\ pc \in {"idle", "loop", "create", "returned", "exited"} => live = {}

\* the attempt after one that lost its Record to a store error is about to
\* create its Session, and the first Session is gone
C4_Witness ==
    /\ pc = "create" /\ attempt = 2
    /\ outcomes = <<"persist_failed">>
    /\ released = 1 /\ live = {}

C6_RecordAlwaysComplete ==
    data # <<>> =>
        LET d == data[1] IN
        /\ DOMAIN d = ColSet
        /\ Cardinality(DOMAIN d) = 8
        /\ \A c \in ColSet : d[c] # None /\ d[c] # <<>>
        /\ \A f \in PlainSet :
             /\ f \in resolvable => d[f] # NA /\ Strip(d[f]) = d[f]
             /\ f \notin resolvable => d[f] = NA

\* the first and the third field fail, the fields after them are resolved
C6_Witness ==
    /\ pc = "save"
    /\ resolvable = {"market_cap", "circulating_supply", "price_change_24h"}
    /\ data[1].price = NA /\ data[1].market_cap = <<"x">>
    /\ data[1].volume_24h = NA /\ data[1].price_change_24h = <<"x">>
    /\ data[1].bullish_sentiment = NA /\ data[1].bearish_sentiment = <<"y">>

\* every data field of the record is the sentinel
AllSentinel(d) == \A c \in ColSet \ {"timestamp"} : d[c] = NA

C13_ExitStatusReflectsOutcome ==
    pc = "exited" => (exit_status = <<0>> <=> result = "true")

\* C14: every address a session of the call navigates to is the `url`
\* argument of run_once.
C14_NavigatesToUrlArgument ==
    \A i \in DOMAIN visited : visited[i] = url

\* the positions of `steps` where datetime.now() was called
Stamps == {i \in DOMAIN steps : steps[i].step = "now"}

\* everything an attempt does before the Record is assembled
ExtractionSteps == {"create", "navigate", "sentiment", "ratios"} \cup PlainSet

\* C16: within one attempt the timestamp is taken at most once, and exactly
\* once when a Record is returned; it is taken after the Session was
\* created, the page loaded, the five plain fields and the sentiment pair
\* resolved, at a later clock value than creation and navigation, and it is
\* the Record's timestamp.
C16_TimestampOnceAfterExtraction ==
    /\ Cardinality(Stamps) <= 1
    /\ \A i \in Stamps :
         /\ i = Len(steps)
         /\ {steps[j].step : j \in 1..(i - 1)} = ExtractionSteps
         /\ \A j \in 1..(i - 1) :
              steps[j].step \in {"create", "navigate"} => steps[j].t < steps[i].t
    /\ pc \in ExtractionSteps \cup {"assemble"} => Stamps = {}
    /\ data # <<>> =>
         /\ Stamps # {}
         /\ data[1].timestamp = Strftime(steps[Len(steps)].t)

C16_Witness ==
    /\ pc = "save"
    /\ attempt = 2
    /\ Stamps = {Len(steps)}
    /\ data[1].timestamp = Strftime(clock)
    /\ data[1].price = <<"x">>

\* C17: the rows the file held when run_once was called are still there,
\* unchanged in value and position.
C17_TableAppendOnly ==
    /\ Len(table0.rows) <= Len(table.rows)
    /\ \A i \in 1..Len(table0.rows) : table.rows[i] = table0.rows[i]

\* C20: a driver.quit() that raises changes nothing else: no exception
\* leaves run_once; a call that returned after a stored Record returned true
\* with that Record as the one new row; a call that returned false has run
\* all its attempts, none of which stored a Record; and between attempts the
\* loop goes on exactly while attempts remain.
C20_QuitFailureSwallowed ==
    quit_raised =>
        /\ result \in {"none", "true", "false"}
        /\ pc \in {"loop", "create", "navigate", "sentiment", "ratios", "assemble",
                   "save", "finally", "returned", "exited"} \cup PlainSet
        /\ Returned =>
             /\ released = CountOf("success") + CountOf("nav_failed")
                           + CountOf("extract_failed") + CountOf("persist_failed")
             /\ IF CountOf("success") > 0
                THEN /\ result = "true"
                     /\ Len(table.rows) = Len(table0.rows) + 1
                     /\ Last(table.rows) = NewRow(data[1])
                ELSE /\ result = "false"
                     /\ attempt = attempts
                     /\ Len(outcomes) = attempts
                     /\ Len(table.rows) = Len(table0.rows)
        /\ pc = "loop" =>
             /\ CountOf("success") = 0
             /\ Len(outcomes) = attempt
             /\ result = "none"

C20_Witness ==
    /\ quit_raised
    /\ Returned /\ result = "true"
    /\ outcomes = <<"nav_failed", "success">>
    /\ released = 2
    /\ Last(table.rows) = NewRow(data[1])

----------------------------------------------------------------------------
(* Properties of run_once (SpecLive) *)

\* C19: when every step returns or raises, a call of run_once returns true
\* or false, and the attempts started never exceed the `attempts` argument.
C19_RunOnceTerminates ==
    /\ [](attempt <= attempts)
    /\ (pc = "loop") ~> (Returned /\ result \in {"true", "false"})

C19_Witness ==
    /\ Returned /\ result = "false"
    /\ attempts = 3 /\ attempt = 3
    /\ Len(outcomes) = 3

----------------------------------------------------------------------------
(* SpecResolve and SpecSentiment: the pure functions on every bounded input *)

InitResolve ==
    /\ RunIdle /\ table = NoTable /\ table0 = NoTable
    /\ SentimentIdle
    /\ OtherIdle
    /\ locators \in SeqsUpTo(StrategyOutcomes, MaxStrategies)
    /\ resolved = <<>>
    /\ field = <<>>

\* one call of try_multiple and of `try_multiple(...) or "N/A"` on `locators`
Resolve ==
    /\ resolved = <<>>
    /\ resolved' = <<TryMultiple(locators)>>
    /\ field' = <<ResolveField(locators)>>
    /\ UNCHANGED <<locators, runVars, sentVars, otherVars>>

NextResolve == Resolve

SpecResolve == InitResolve /\ [][NextResolve]_vars

InitSentiment ==
    /\ RunIdle /\ table = NoTable /\ table0 = NoTable
    /\ ResolveIdle
    /\ OtherIdle
    /\ \E c \in SeqsOfLen(PageOutcomes, NumContainerStrategies),
          q1 \in QueryResults(MaxCandidates), q2 \in QueryResults(MaxFallback) :
            sent_in = <<[container |-> c, q1 |-> q1, q2 |-> q2]>>
    /\ sent_out = <<>>

\* one run of the sentiment block on the page `sent_in`
Sentiment ==
    /\ sent_out = <<>>
    /\ sent_out' = <<SentimentBlock(sent_in[1].container, sent_in[1].q1, sent_in[1].q2)>>
    /\ UNCHANGED <<sent_in, runVars, resolveVars, otherVars>>

NextSentiment == Sentiment

SpecSentiment == InitSentiment /\ [][NextSentiment]_vars

----------------------------------------------------------------------------
(* Properties of try_multiple (SpecResolve) *)

\* strategy i of `locators` finds an element whose stripped text is not empty
Matches(i) == locators[i].kind = "found" /\ Strip(locators[i].text) # <<>>

UpTo(k) == [i \in 1..k |-> i]

\* C7: the strategies are evaluated in list order, and the stripped text of
\* the first one that has a non-empty stripped text is returned; no strategy
\* after it is evaluated.
C7_FirstMatchWins ==
    resolved # <<>> =>
        \A k \in 1..Len(locators) :
            (Matches(k) /\ \A j \in 1..(k - 1) : ~Matches(j)) =>
                /\ resolved[1].value = Strip(locators[k].text)
                /\ resolved[1].evaluated = UpTo(k)
                /\ ~resolved[1].raised

\* three strategies of which only the third matches, with a text to strip
C7_Witness ==
    /\ resolved # <<>>
    /\ locators = <<Timeout, Found(<<" ">>), Found(<<" ", "x">>)>>
    /\ resolved[1].value = <<"x">>
    /\ resolved[1].evaluated = <<1, 2, 3>>

\* C8: when no strategy has a non-empty stripped text (each times out, raises
\* or has an empty or blank text), every strategy is tried, nothing is
\* raised, try_multiple returns None and the field is "N/A".
C8_NoMatchGivesSentinel ==
    (resolved # <<>> /\ \A i \in 1..Len(locators) : ~Matches(i)) =>
        /\ ~resolved[1].raised
        /\ resolved[1].evaluated = UpTo(Len(locators))
        /\ resolved[1].value = None
        /\ ~field[1].raised
        /\ field[1].value = NA

C8_Witness ==
    /\ field # <<>>
    /\ locators = <<Timeout, Stale, Found(<<" ", " ">>)>>
    /\ field[1].value = NA

----------------------------------------------------------------------------
(* Properties of the sentiment block (SpecSentiment) *)

\* the page of the run
Page == sent_in[1]

\* the container lookup finds a container with a text
ContainerFound ==
    \E i \in 1..Len(Page.container) :
        Page.container[i].kind = "found" /\ Strip(Page.container[i].text) # <<>>

\* a candidate query that the block makes raises
QueryFails ==
    Page.q1.raised \/ (Page.q1.elems = <<>> /\ Page.q2.raised)

\* the ordered candidate list the block works on
Candidates == IF Page.q1.elems # <<>> THEN Page.q1.elems ELSE Page.q2.elems

\* reading the text of candidate i raises
ReadFails(i) == Len(Candidates) >= i /\ Candidates[i].stale

\* the value of a candidate: its stripped text, and the sentinel when blank
ValueOf(e) == IF Strip(e.text) = <<>> THEN NA ELSE Strip(e.text)

\* C9: on the candidate list the block obtains (container found, nothing
\* raised), 0 candidates give ("N/A","N/A"), 1 candidate gives (its value,
\* "N/A"), 2 or more give (first, second) whatever follows them.
C9_SentimentPositional ==
    (/\ sent_out # <<>>
     /\ ContainerFound /\ ~QueryFails /\ ~ReadFails(1) /\ ~ReadFails(2)) =>
        LET n == Len(Candidates)
            out == sent_out[1]
        IN  /\ n = 0 => out.bullish = NA /\ out.bearish = NA
            /\ n = 1 => out.bullish = ValueOf(Candidates[1]) /\ out.bearish = NA
            /\ n >= 2 => /\ out.bullish = ValueOf(Candidates[1])
                         /\ out.bearish = ValueOf(Candidates[2])

\* three candidates, the third with another value than the second
C9_Witness ==
    /\ sent_out # <<>>
    /\ ContainerFound
    /\ Page.q1 = QueryReturns(<<El(<<"x">>), El(<<" ", "y">>), El(<<"x">>)>>)
    /\ sent_out[1].bullish = <<"x">> /\ sent_out[1].bearish = <<"y">>

\* C10 as stated: an exception anywhere in the block gives ("N/A","N/A").
C10_AnyExceptionGivesNA ==
    (/\ sent_out # <<>>
     /\ ContainerFound
     /\ QueryFails \/ ReadFails(1) \/ ReadFails(2)) =>
        sent_out[1].bullish = NA /\ sent_out[1].bearish = NA

\* C10 amended: an exception anywhere in the block is caught (the block ends
\* with its two values) and leaves bearish at "N/A"; bullish is "N/A" too,
\* unless the exception was raised by reading the second candidate, when
\* bullish keeps the value already read from the first.
C10_ExceptionKeepsAssigned ==
    (/\ sent_out # <<>>
     /\ ContainerFound
     /\ QueryFails \/ ReadFails(1) \/ ReadFails(2)) =>
        /\ sent_out[1].exc # "none"
        /\ sent_out[1].bearish = NA
        /\ sent_out[1].bullish =
             IF ~QueryFails /\ ~ReadFails(1) THEN ValueOf(Candidates[1]) ELSE NA

C10_Witness ==
    /\ sent_out # <<>>
    /\ ContainerFound
    /\ Page.q1 = QueryReturns(<<El(<<"x">>), StaleEl>>)
    /\ sent_out[1].exc = "second"
    /\ sent_out[1].bullish = <<"x">> /\ sent_out[1].bearish = NA

\* C15 as stated: when no container is found, the candidates the page has
\* are still sought and give the two values.
C15_FallbackWithoutContainer ==
    (/\ sent_out # <<>>
     /\ ~ContainerFound
     /\ ~QueryFails /\ Candidates # <<>> /\ ~ReadFails(1) /\ ~ReadFails(2)) =>
        /\ sent_out[1].bullish = ValueOf(Candidates[1])
        /\ Len(Candidates) >= 2 => sent_out[1].bearish = ValueOf(Candidates[2])

\* C15 amended: when no container is found no candidate query is made, the
\* result is ("N/A","N/A") whatever candidates the page has and whatever the
\* queries would raise; the fallback query is the one made when a container
\* was found and the first query returned no element.
C15_NoContainerNoQuery ==
    sent_out # <<>> =>
        /\ ~ContainerFound =>
             /\ sent_out[1].bullish = NA /\ sent_out[1].bearish = NA
             /\ sent_out[1].exc = "none"
        /\ (/\ ContainerFound
            /\ Page.q1 = QueryReturns(<<>>)
            /\ ~Page.q2.raised /\ Page.q2.elems # <<>>
            /\ ~Page.q2.elems[1].stale) =>
               sent_out[1].bullish = ValueOf(Page.q2.elems[1])

\* no container, two readable candidates with a text
C15_Witness ==
    /\ sent_out # <<>>
    /\ ~ContainerFound
    /\ Page.q1 = QueryReturns(<<El(<<"x">>), El(<<" ", "y">>)>>)
    /\ sent_out[1].bullish = NA /\ sent_out[1].bearish = NA

----------------------------------------------------------------------------
(* Properties of save_to_csv (SpecStore) *)

\* C12: starting from no file, after N appends the file holds exactly the N
\* records appended, in append order, each cell as it was handed over.
C12_ReadBackGivesAppended ==
    appended # <<>> =>
        /\ table.exists
        /\ table.rows = [i \in 1..Len(appended) |-> NewRow(appended[i])]

----------------------------------------------------------------------------
(* Properties of optimized_bitcoin_scraper.py (SpecOptimized) *)

\* C18: however the script ends, its browser session has been handed to
\* driver.quit().
C18_SessionTerminatedOnEveryExit ==
    opc \in {"done", "crashed"} => ~olive

====
